---- MODULE Spec2Model ----
(***************************************************************************)
(* A model of the dataframe crate: the Val tagged union and its parsing    *)
(* (src/src/val.rs), the DataFrame store with its untyped decoder and its  *)
(* accessors (src/src/dataframe.rs), and the read_str that the derive      *)
(* macro generates (src/macros/src/lib.rs).                                *)
(*                                                                         *)
(* Text is a sequence of one-character strings. Integers wider than TLC's  *)
(* own arithmetic (i64, usize payloads) are kept as their decimal digits,  *)
(* most significant first, without leading zeros, so that the 64-bit range *)
(* checks of the parsers are the real ones.                                *)
(***************************************************************************)
EXTENDS Integers, Sequences, FiniteSets, TLC

VARIABLES
    input,      \* the text handed to a decoder, the cell handed to Val::from_str,
                \* the pair of Vals compared, or the token buffer of the Cursor
    schema,     \* the derive macro's field list: a sequence of [name, type]
    phase,      \* "text" before decoding, then "loaded", "panicked" or "parsed"
    df,         \* the DataFrame: [headers, data, width, height]
    filtered,   \* the generated read_str's local filtered_data
    ret,        \* what the last operation returned to its caller
    calls,      \* the data indices the last loc handed to its closure, in call order
    nloc,       \* how many loc calls have been made
    decl,       \* the record type declaration the derive macro is applied to
    cur         \* the macro's Cursor (offset) and the locals of Cursor::parse

vars == <<input, schema, phase, df, filtered, ret, calls, nloc, decl, cur>>

----------------------------------------------------------------------------
(* Characters and digit strings                                            *)

Digits == {"0", "1", "2", "3", "4", "5", "6", "7", "8", "9"}

DigitVal(c) ==
    CASE c = "0" -> 0 [] c = "1" -> 1 [] c = "2" -> 2 [] c = "3" -> 3
      [] c = "4" -> 4 [] c = "5" -> 5 [] c = "6" -> 6 [] c = "7" -> 7
      [] c = "8" -> 8 [] c = "9" -> 9

Tail2(s) == SubSeq(s, 2, Len(s))

\* The one element of a singleton set: S is {e} for an expression e whose
\* value is then computed once.
Only(S) == CHOOSE x \in S : TRUE

IsDigits(s) == \A i \in 1..Len(s) : s[i] \in Digits

\* The digits of s as numbers, leading zeros dropped (zero is the empty sequence).
RECURSIVE StripZeros(_)
StripZeros(m) ==
    IF m # <<>> /\ m[1] = 0 THEN StripZeros(Tail2(m)) ELSE m

Mag(s) == StripZeros([i \in 1..Len(s) |-> DigitVal(s[i])])

\* a < b for magnitudes (digit sequences without leading zeros)
RECURSIVE LexLess(_, _)
LexLess(a, b) ==
    IF a = <<>> THEN FALSE
    ELSE IF a[1] # b[1] THEN a[1] < b[1]
    ELSE LexLess(Tail2(a), Tail2(b))

MagLess(a, b) ==
    \/ Len(a) < Len(b)
    \/ Len(a) = Len(b) /\ LexLess(a, b)

MagLeq(a, b) == a = b \/ MagLess(a, b)

\* i64::MAX = 9223372036854775807, and |i64::MIN| = 9223372036854775808
I64MaxMag == <<9,2,2,3,3,7,2,0,3,6,8,5,4,7,7,5,8,0,7>>
I64MinMag == <<9,2,2,3,3,7,2,0,3,6,8,5,4,7,7,5,8,0,8>>
\* usize::MAX = u64::MAX = 18446744073709551615 on the 64-bit targets
UsizeMaxMag == <<1,8,4,4,6,7,4,4,0,7,3,7,0,9,5,5,1,6,1,5>>

----------------------------------------------------------------------------
(* The standard parsers the crate calls: str::parse::<i64>, ::<usize>,     *)
(* ::<f64>. Each returns [ok |-> FALSE] or [ok |-> TRUE, ...payload].      *)

\* value.parse::<i64>(): an optional sign, then one or more decimal digits,
\* within the 64-bit signed range.
parse_i64(s) ==
    LET signed == s # <<>> /\ s[1] \in {"+", "-"}
        neg    == s # <<>> /\ s[1] = "-"
        ds     == IF signed THEN Tail2(s) ELSE s
        m      == Mag(ds)
    IN  IF ds = <<>> \/ ~IsDigits(ds) THEN [ok |-> FALSE]
        ELSE IF neg /\ ~MagLeq(m, I64MinMag) THEN [ok |-> FALSE]
        ELSE IF ~neg /\ ~MagLeq(m, I64MaxMag) THEN [ok |-> FALSE]
        ELSE [ok |-> TRUE, neg |-> neg /\ m # <<>>, mag |-> m]

\* d.parse::<usize>(): an optional '+' (a '-' is an invalid digit), then one or
\* more decimal digits, within the 64-bit unsigned range.
parse_usize(s) ==
    LET plus == s # <<>> /\ s[1] = "+"
        ds   == IF plus THEN Tail2(s) ELSE s
        m    == Mag(ds)
    IN  IF ds = <<>> \/ ~IsDigits(ds) THEN [ok |-> FALSE]
        ELSE IF ~MagLeq(m, UsizeMaxMag) THEN [ok |-> FALSE]
        ELSE [ok |-> TRUE, mag |-> m]

Lower(c) ==
    CASE c = "N" -> "n" [] c = "A" -> "a" [] c = "I" -> "i" [] c = "F" -> "f"
      [] c = "T" -> "t" [] c = "Y" -> "y" [] c = "E" -> "e" [] OTHER -> c

LowerStr(s) == [i \in 1..Len(s) |-> Lower(s[i])]

RECURSIVE StripTrailingZeros(_)
StripTrailingZeros(m) ==
    IF m # <<>> /\ m[Len(m)] = 0 THEN StripTrailingZeros(SubSeq(m, 1, Len(m) - 1)) ELSE m

RECURSIVE NatOf(_)
NatOf(m) == IF m = <<>> THEN 0 ELSE 10 * NatOf(SubSeq(m, 1, Len(m) - 1)) + m[Len(m)]

\* The index of the first c in s, or 0.
IndexOf(s, c) ==
    IF \E i \in 1..Len(s) : s[i] = c
    THEN CHOOSE i \in 1..Len(s) : s[i] = c /\ \A j \in 1..(i - 1) : s[j] # c
    ELSE 0

\* A finite decimal: mant are the significant digits (no leading or trailing
\* zeros), the value is 0.mant * 10^exp10; zero keeps its sign. Values past the
\* f64 range become infinity, values below it zero.
Finite(neg, intds, fracds, e) ==
    LET all   == [i \in 1..(Len(intds) + Len(fracds)) |->
                    IF i <= Len(intds) THEN DigitVal(intds[i])
                    ELSE DigitVal(fracds[i - Len(intds)])]
        lead  == Len(all) - Len(StripZeros(all))
        mant  == StripTrailingZeros(StripZeros(all))
        order == Len(intds) - lead + e
    IN  IF mant = <<>> THEN [ok |-> TRUE, kind |-> "num", neg |-> neg, mant |-> <<>>, exp10 |-> 0]
        ELSE IF order > 309 THEN [ok |-> TRUE, kind |-> "inf", neg |-> neg, mant |-> <<>>, exp10 |-> 0]
        ELSE IF order < -323 THEN [ok |-> TRUE, kind |-> "num", neg |-> neg, mant |-> <<>>, exp10 |-> 0]
        ELSE [ok |-> TRUE, kind |-> "num", neg |-> neg, mant |-> mant, exp10 |-> order]

\* value.parse::<f64>():
\*   Float  ::= Sign? ( 'inf' | 'infinity' | 'nan' | Number )
\*   Number ::= ( Digit+ | Digit+ '.' Digit* | Digit* '.' Digit+ ) Exp?
\*   Exp    ::= 'e' Sign? Digit+          (letters in either case)
parse_f64(s) ==
    LET signed == s # <<>> /\ s[1] \in {"+", "-"}
        neg    == s # <<>> /\ s[1] = "-"
        body   == LowerStr(IF signed THEN Tail2(s) ELSE s)
        epos   == IndexOf(body, "e")
        num    == IF epos = 0 THEN body ELSE SubSeq(body, 1, epos - 1)
        ex     == IF epos = 0 THEN <<>> ELSE SubSeq(body, epos + 1, Len(body))
        exsgn  == ex # <<>> /\ ex[1] \in {"+", "-"}
        exneg  == ex # <<>> /\ ex[1] = "-"
        exds   == IF exsgn THEN Tail2(ex) ELSE ex
        exok   == epos = 0 \/ (exds # <<>> /\ IsDigits(exds))
        exmag  == Mag(exds)
        \* an exponent of five digits or more is far outside the f64 range either way
        exabs  == IF Len(exmag) > 4 THEN 9999 ELSE NatOf(exmag)
        e      == IF epos = 0 THEN 0 ELSE IF exneg THEN 0 - exabs ELSE exabs
        dot    == IndexOf(num, ".")
        intds  == IF dot = 0 THEN num ELSE SubSeq(num, 1, dot - 1)
        fracds == IF dot = 0 THEN <<>> ELSE SubSeq(num, dot + 1, Len(num))
        numok  == /\ IsDigits(intds) /\ IsDigits(fracds)
                  /\ Len(intds) + Len(fracds) > 0
    IN  IF body = <<"n","a","n">>
        THEN [ok |-> TRUE, kind |-> "nan", neg |-> neg, mant |-> <<>>, exp10 |-> 0]
        ELSE IF body = <<"i","n","f">> \/ body = <<"i","n","f","i","n","i","t","y">>
        THEN [ok |-> TRUE, kind |-> "inf", neg |-> neg, mant |-> <<>>, exp10 |-> 0]
        ELSE IF numok /\ exok THEN Finite(neg, intds, fracds, e)
        ELSE [ok |-> FALSE]

----------------------------------------------------------------------------
(* Val                                                                     *)

StringVal(s) == [tag |-> "String", s |-> s]
Int64Val(p) == [tag |-> "Int64", neg |-> p.neg, mag |-> p.mag]
UsizeVal(p) == [tag |-> "Usize", mag |-> p.mag]
Float64Val(p) == [tag |-> "Float64", kind |-> p.kind, neg |-> p.neg,
                  mant |-> p.mant, exp10 |-> p.exp10]

\* Val::from_str, swapping the two parsers' priority: a plausible slip.
from_str_float_first(value) ==
    LET f == parse_f64(value)
        i == parse_i64(value)
    IN  IF f.ok THEN Float64Val(f)
        ELSE IF i.ok THEN Int64Val(i)
        ELSE StringVal(value)

\* impl FromStr for Val: i64, then f64, then String; always Ok.
from_str(value) ==
    LET i == parse_i64(value)
    IN  IF i.ok THEN Int64Val(i)
        ELSE LET f == parse_f64(value)
             IN  IF f.ok THEN Float64Val(f)
                 ELSE StringVal(value)

\* The variants of Val, by the kind of payload they carry.
SignedTags == {"Isize", "Int128", "Int64", "Int32", "Int16", "Int8"}
UnsignedTags == {"Usize", "UInt128", "Uint64", "Uint32", "Uint16", "Uint8"}
FloatTags == {"Float64", "Float32"}
ValTags == {"String"} \cup SignedTags \cup UnsignedTags \cup FloatTags

\* Ord::cmp of two magnitudes
MagCmp(a, b) == IF a = b THEN "Equal" ELSE IF MagLess(a, b) THEN "Less" ELSE "Greater"

\* i64::cmp of two signed payloads [neg, mag]
SignedCmp(x, y) ==
    IF x.neg /\ ~y.neg THEN "Less"
    ELSE IF ~x.neg /\ y.neg THEN "Greater"
    ELSE IF x.neg THEN MagCmp(y.mag, x.mag)
    ELSE MagCmp(x.mag, y.mag)

\* the byte of a character, for the characters texts are made of here
CharByte(c) ==
    CASE c = "!" -> 33 [] c = "7" -> 55 [] c = "a" -> 97 [] c = "b" -> 98 [] OTHER -> 0

\* str::cmp: byte by byte, a proper prefix is less
RECURSIVE StrCmp(_, _)
StrCmp(s, t) ==
    IF s = <<>> /\ t = <<>> THEN "Equal"
    ELSE IF s = <<>> THEN "Less"
    ELSE IF t = <<>> THEN "Greater"
    ELSE IF CharByte(s[1]) < CharByte(t[1]) THEN "Less"
    ELSE IF CharByte(s[1]) > CharByte(t[1]) THEN "Greater"
    ELSE StrCmp(Tail2(s), Tail2(t))

\* f64::eq: a NaN equals nothing, the two zeros are equal
FloatEq(x, y) ==
    IF x.kind = "nan" \/ y.kind = "nan" THEN FALSE
    ELSE IF x.kind = "num" /\ y.kind = "num" /\ x.mant = <<>> /\ y.mant = <<>> THEN TRUE
    ELSE x.kind = y.kind /\ x.neg = y.neg /\ x.mant = y.mant /\ x.exp10 = y.exp10

\* the place of a float in f64::total_cmp's order of classes:
\* -NaN, -inf, negative, -0, +0, positive, +inf, +NaN
FloatClass(x) ==
    CASE x.kind = "nan" -> IF x.neg THEN 0 ELSE 7
      [] x.kind = "inf" -> IF x.neg THEN 1 ELSE 6
      [] x.mant = <<>> -> IF x.neg THEN 3 ELSE 4
      [] OTHER -> IF x.neg THEN 2 ELSE 5

\* the order of two magnitudes 0.mant * 10^exp10
RECURSIVE MantCmp(_, _)
MantCmp(m, n) ==
    IF m = <<>> /\ n = <<>> THEN "Equal"
    ELSE IF m = <<>> THEN "Less"
    ELSE IF n = <<>> THEN "Greater"
    ELSE IF m[1] < n[1] THEN "Less"
    ELSE IF m[1] > n[1] THEN "Greater"
    ELSE MantCmp(Tail2(m), Tail2(n))

DecimalCmp(x, y) ==
    IF x.exp10 < y.exp10 THEN "Less"
    ELSE IF x.exp10 > y.exp10 THEN "Greater"
    ELSE MantCmp(x.mant, y.mant)

\* f64::total_cmp
total_cmp(x, y) ==
    IF FloatClass(x) < FloatClass(y) THEN "Less"
    ELSE IF FloatClass(x) > FloatClass(y) THEN "Greater"
    ELSE IF FloatClass(x) = 5 THEN DecimalCmp(x, y)
    ELSE IF FloatClass(x) = 2 THEN DecimalCmp(y, x)
    ELSE "Equal"

\* impl PartialEq for Val: four same-variant arms, every other pair is unequal.
eq(a, b) ==
    CASE a.tag = "String" /\ b.tag = "String" -> a.s = b.s
      [] a.tag = "Int64" /\ b.tag = "Int64" -> a.neg = b.neg /\ a.mag = b.mag
      [] a.tag = "Float64" /\ b.tag = "Float64" -> FloatEq(a, b)
      [] a.tag = "Usize" /\ b.tag = "Usize" -> a.mag = b.mag
      [] OTHER -> FALSE

\* impl PartialOrd for Val: Some(ordering) in the same four arms, None elsewhere.
partial_cmp(a, b) ==
    CASE a.tag = "String" /\ b.tag = "String" -> StrCmp(a.s, b.s)
      [] a.tag = "Int64" /\ b.tag = "Int64" -> SignedCmp(a, b)
      [] a.tag = "Float64" /\ b.tag = "Float64" -> total_cmp(a, b)
      [] a.tag = "Usize" /\ b.tag = "Usize" -> MagCmp(a.mag, b.mag)
      [] OTHER -> "None"

----------------------------------------------------------------------------
(* Text splitting: str::lines and str::split                               *)

\* str::split(sep): the pieces between the separators, at least one piece.
RECURSIVE split(_, _)
split(s, sep) ==
    LET i == IndexOf(s, sep)
    IN  IF i = 0 THEN <<s>>
        ELSE <<SubSeq(s, 1, i - 1)>> \o split(SubSeq(s, i + 1, Len(s)), sep)

\* str::lines(): split at "\n", a "\r" right before a "\n" goes with it, and a
\* final line ending adds no empty last line (the empty text has no line).
lines(s) ==
    LET parts == split(s, "\n")
        n     == Len(parts)
        kept  == IF parts[n] = <<>> THEN SubSeq(parts, 1, n - 1) ELSE parts
        strip(l) == IF l # <<>> /\ l[Len(l)] = "\r" THEN SubSeq(l, 1, Len(l) - 1) ELSE l
    IN  [i \in 1..Len(kept) |-> IF i < n THEN strip(kept[i]) ELSE kept[i]]

RECURSIVE Flatten(_)
Flatten(ss) == IF ss = <<>> THEN <<>> ELSE ss[1] \o Flatten(Tail2(ss))

\* The flat_map both decoders start with: every line's cells in one sequence;
\* each line counts into height and overwrites width with its own cell count.
ReadRaw(text) ==
    LET ls    == lines(text)
        cells == [i \in 1..Len(ls) |-> split(ls[i], ",")]
    IN  [raw    |-> Flatten(cells),
         width  |-> IF ls = <<>> THEN 0 ELSE Len(cells[Len(ls)]),
         height |-> Len(ls)]

----------------------------------------------------------------------------
(* DataFrame                                                               *)

\* usize::MAX, what 0 - 1 wraps to without overflow checks. It stands for
\* 2^64 - 1 and is only ever compared with, never computed with.
UsizeMax == 2147483647

NoVal == <<>>
\* no declaration and no cursor: the macro is not at work
NoDecl == <<>>
NoCursor == <<>>
Ret(op, arg, kind, val) == [op |-> op, arg |-> arg, kind |-> kind, val |-> val]

\* #[derive(Default)] for DataFrame
DataFrameDefault == [headers |-> <<>>, data |-> <<>>, width |-> 0, height |-> 0]

\* self.headers.iter().position(|h| h == header), counted from 0; -1 for None
position(hs, header) == IndexOf(hs, header) - 1

\* the data indices (from 0) that a pass over data selects for column c
RECURSIVE ColumnIndices(_, _, _, _)
ColumnIndices(n, width, c, i) ==
    IF i >= n THEN <<>>
    ELSE (IF i % width = c THEN <<i>> ELSE <<>>) \o ColumnIndices(n, width, c, i + 1)

\* DataFrame::col with the column test comparing the row number: a plausible slip.
col_by_row(d, header) ==
    LET c == position(d.headers, header)
    IN  IF c < 0 THEN Ret("col", header, "none", NoVal)
        ELSE IF d.data # <<>> /\ d.width = 0 THEN Ret("col", header, "panic", NoVal)
        ELSE Ret("col", header, "some",
                 LET n == Len(d.data)
                     idx == SelectSeq([i \in 1..n |-> i - 1], LAMBDA i : i \div d.width = c)
                 IN  [k \in 1..Len(idx) |-> d.data[idx[k] + 1]])

\* DataFrame::col
col(d, header) ==
    LET c == position(d.headers, header)
    IN  IF c < 0 THEN Ret("col", header, "none", NoVal)
        ELSE IF d.data # <<>> /\ d.width = 0 THEN Ret("col", header, "panic", NoVal)
        ELSE Ret("col", header, "some",
                 LET idx == ColumnIndices(Len(d.data), d.width, c, 0)
                 IN  [k \in 1..Len(idx) |-> d.data[idx[k] + 1]])

Min(a, b) == IF a < b THEN a ELSE b

\* DataFrame::row: the zip of headers with the row's slice, collected into a
\* HashMap (a later entry with the same key replaces the earlier one).
row(d, idx) ==
    IF idx >= d.height THEN Ret("row", <<idx>>, "none", NoVal)
    ELSE IF d.width * (1 + idx) > Len(d.data) THEN Ret("row", <<idx>>, "panic", NoVal)
    ELSE LET n    == Min(Len(d.headers), d.width)
             keys == {d.headers[c] : c \in 1..n}
             last(k) == CHOOSE c \in 1..n :
                           d.headers[c] = k /\ \A c2 \in (c + 1)..n : d.headers[c2] # k
         IN  Ret("row", <<idx>>, "some", [k \in keys |-> d.data[idx * d.width + last(k)]])

\* The closures handed to loc.
\*   "flip":  the tests' loc closure: a String grows, a number changes sign
\*   "retag": the tests' modify_col_dtype closure, for the non-negative Int64
Transforms == {"flip", "retag"}

Apply(f, v) ==
    CASE f = "flip" /\ v.tag = "String" -> StringVal(v.s \o <<"!">>)
      [] f = "flip" /\ v.tag = "Int64" /\ v.mag # <<>> /\ v.mag # I64MinMag
            -> [v EXCEPT !.neg = ~v.neg]
      [] f = "flip" /\ v.tag = "Float64" -> [v EXCEPT !.neg = ~v.neg]
      [] f = "retag" /\ v.tag = "Int64" /\ ~v.neg -> [tag |-> "Usize", mag |-> v.mag]
      [] OTHER -> v

\* The pass of loc over data from index i on: the cell at i goes to the
\* closure when i % width is the column, and the pass goes on to i + 1.
RECURSIVE LocPass(_, _, _, _, _, _)
LocPass(data, width, c, f, i, log) ==
    IF i >= Len(data) THEN [data |-> data, calls |-> log]
    ELSE IF i % width = c
         THEN LocPass([data EXCEPT ![i + 1] = Apply(f, data[i + 1])], width, c, f,
                      i + 1, Append(log, i))
         ELSE LocPass(data, width, c, f, i + 1, log)

\* DataFrame::loc handing the closure the cells of the column after: a plausible slip.
loc_next_column(d, header, f) ==
    LET c == position(d.headers, header)
    IN  IF c < 0 THEN [ret |-> Ret("loc", <<header, f>>, "err", [error |-> "HeaderNotFound", of |-> header]),
                       data |-> d.data, calls |-> <<>>]
        ELSE IF d.data # <<>> /\ d.width = 0
             THEN [ret |-> Ret("loc", <<header, f>>, "panic", NoVal), data |-> d.data, calls |-> <<>>]
        ELSE LET r == LocPass(d.data, d.width, (c + 1) % d.width, f, 0, <<>>)
             IN  [ret |-> Ret("loc", <<header, f>>, "ok", NoVal), data |-> r.data, calls |-> r.calls]

\* DataFrame::loc not returning early for an unknown header: a plausible slip.
loc_no_early_return(d, header, f) ==
    LET c == position(d.headers, header)
    IN  IF d.data # <<>> /\ d.width = 0
        THEN [ret |-> Ret("loc", <<header, f>>, "panic", NoVal), data |-> d.data, calls |-> <<>>]
        ELSE LET r == LocPass(d.data, d.width, IF c < 0 THEN 0 ELSE c, f, 0, <<>>)
             IN  [ret |-> IF c < 0 THEN Ret("loc", <<header, f>>, "err", [error |-> "HeaderNotFound", of |-> header])
                          ELSE Ret("loc", <<header, f>>, "ok", NoVal),
                  data |-> r.data, calls |-> r.calls]

\* DataFrame::loc
loc(d, header, f) ==
    LET c == position(d.headers, header)
    IN  IF c < 0 THEN [ret |-> Ret("loc", <<header, f>>, "err", [error |-> "HeaderNotFound", of |-> header]),
                       data |-> d.data, calls |-> <<>>]
        ELSE IF d.data # <<>> /\ d.width = 0
             THEN [ret |-> Ret("loc", <<header, f>>, "panic", NoVal), data |-> d.data, calls |-> <<>>]
        ELSE LET r == LocPass(d.data, d.width, c, f, 0, <<>>)
             IN  [ret |-> Ret("loc", <<header, f>>, "ok", NoVal), data |-> r.data, calls |-> r.calls]

DigitChar(n) ==
    CASE n = 0 -> "0" [] n = 1 -> "1" [] n = 2 -> "2" [] n = 3 -> "3" [] n = 4 -> "4"
      [] n = 5 -> "5" [] n = 6 -> "6" [] n = 7 -> "7" [] n = 8 -> "8" [] n = 9 -> "9"

\* the decimal text of a magnitude
MagText(m) == IF m = <<>> THEN <<"0">> ELSE [i \in 1..Len(m) |-> DigitChar(m[i])]

\* {:?} of one character of a string
escape_debug(c) ==
    CASE c = "\"" -> <<"\\", "\"">>
      [] c = "\\" -> <<"\\", "\\">>
      [] c = "\n" -> <<"\\", "n">>
      [] c = "\r" -> <<"\\", "r">>
      [] c = "\t" -> <<"\\", "t">>
      [] OTHER -> <<c>>

Rep(c, n) == [i \in 1..n |-> c]

\* {} of a float: the digits in positional notation, never an exponent
FloatText(x) ==
    CASE x.kind = "nan" -> <<"N", "a", "N">>
      [] x.kind = "inf" -> (IF x.neg THEN <<"-">> ELSE <<>>) \o <<"i", "n", "f">>
      [] OTHER ->
           (IF x.neg THEN <<"-">> ELSE <<>>) \o
           (IF x.mant = <<>> THEN <<"0">>
            ELSE IF x.exp10 >= Len(x.mant)
                 THEN MagText(x.mant) \o Rep("0", x.exp10 - Len(x.mant))
            ELSE IF x.exp10 > 0
                 THEN MagText(SubSeq(x.mant, 1, x.exp10)) \o <<".">>
                      \o MagText(SubSeq(x.mant, x.exp10 + 1, Len(x.mant)))
            ELSE <<"0", ".">> \o Rep("0", 0 - x.exp10) \o MagText(x.mant))

\* impl Display for Val: a String in quotes ({:?}), a number as its digits
to_string(v) ==
    CASE v.tag = "String" ->
           <<"\"">> \o Flatten([i \in 1..Len(v.s) |-> escape_debug(v.s[i])]) \o <<"\"">>
      [] v.tag \in SignedTags -> (IF v.neg THEN <<"-">> ELSE <<>>) \o MagText(v.mag)
      [] v.tag \in UnsignedTags -> MagText(v.mag)
      [] OTHER -> FloatText(v)

Max(S) == CHOOSE x \in S : \A y \in S : y <= x

\* The lens of Debug::fmt: for every header, in order, the longest rendered
\* cell of the column col finds for it; a header whose column is empty adds
\* no entry. [kind, lens]
lens(d) ==
    Only({ IF \E h \in 1..Len(cols) : cols[h].kind = "panic"
           THEN [kind |-> "panic", lens |-> <<>>]
           ELSE [kind |-> "ok",
                 lens |-> SelectSeq([h \in 1..Len(cols) |->
                                        IF cols[h].val = <<>> THEN -1
                                        ELSE Max({Len(to_string(cols[h].val[k])) :
                                                     k \in 1..Len(cols[h].val)})],
                                    LAMBDA x : x >= 0)]
         : cols \in {[h \in 1..Len(d.headers) |-> col(d, d.headers[h])]} })

\* printh_borders
printh_borders(ls) ==
    Flatten([i \in 1..Len(ls) |->
                <<"+">> \o Rep("-", ls[i] + 4) \o (IF i = Len(ls) THEN <<"+">> ELSE <<>>)])

\* {:>spacing$} of a text: spaces in front up to the width
PadLeft(text, spacing) ==
    IF spacing <= Len(text) THEN text ELSE Rep(" ", spacing - Len(text)) \o text

\* One iteration of the header loop, for the i-th (from 0) pair of the zip of
\* headers and lens: [kind, text]. The spacing is a usize.
fmt_header(d, ls, i) ==
    IF Len(d.headers[i + 1]) > ls[i + 1] + 5 THEN [kind |-> "underflow", text |-> <<>>]
    ELSE IF d.width = 0 THEN [kind |-> "panic", text |-> <<>>]
    ELSE [kind |-> "ok",
          text |-> (IF i % d.width = 0 THEN <<"\n", "|", " ">> ELSE <<>>)
                   \o d.headers[i + 1]
                   \o PadLeft(<<"|", " ">>, ls[i + 1] + 5 - Len(d.headers[i + 1]))]

\* One iteration of the data loop, for the cell at index i (from 0).
fmt_cell(d, ls, i) ==
    IF d.width = 0 \/ i % d.width >= Len(ls) THEN [kind |-> "panic", text |-> <<>>]
    ELSE Only({ IF Len(t) > ls[(i % d.width) + 1] + 5 THEN [kind |-> "underflow", text |-> <<>>]
                ELSE [kind |-> "ok",
                      text |-> (IF i % d.width = 0 THEN <<"\n", "|", " ">> ELSE <<>>)
                               \o t
                               \o PadLeft(<<"|", " ">>, ls[(i % d.width) + 1] + 5 - Len(t))
                               \o (IF i % d.width # 0 /\ i = Len(d.data) - 1
                                   THEN <<"\n">> ELSE <<>>)]
              : t \in {to_string(d.data[i + 1])} })

\* the first step that is not "ok", if any: [kind, text of all steps]
RunSteps(steps) ==
    IF \E i \in 1..Len(steps) : steps[i].kind # "ok"
    THEN [kind |-> steps[CHOOSE i \in 1..Len(steps) :
                            /\ steps[i].kind # "ok"
                            /\ \A j \in 1..(i - 1) : steps[j].kind = "ok"].kind,
          text |-> <<>>]
    ELSE [kind |-> "ok", text |-> Flatten([i \in 1..Len(steps) |-> steps[i].text])]

\* Debug::fmt once lens is known. A spacing below zero panics with overflow
\* checks; without them it wraps to a width of nearly 2^64 and no rendering
\* is returned.
fmt_grid(d, ls, overflow_checks) ==
    Only({ IF hs.kind # "ok" \/ ds.kind # "ok"
           THEN Only({ [kind |-> IF k = "underflow"
                                 THEN (IF overflow_checks THEN "panic" ELSE "no_return")
                                 ELSE k,
                        out |-> NoVal]
                     : k \in {IF hs.kind # "ok" THEN hs.kind ELSE ds.kind} })
           ELSE [kind |-> "ok",
                 out  |-> printh_borders(ls) \o hs.text \o <<"\n">> \o printh_borders(ls)
                          \o ds.text \o printh_borders(ls)]
         : hs \in {RunSteps([i \in 1..Min(Len(d.headers), Len(ls)) |-> fmt_header(d, ls, i - 1)])},
           ds \in {RunSteps([i \in 1..Len(d.data) |-> fmt_cell(d, ls, i - 1)])} })

\* impl Debug for DataFrame: [kind, out]
fmt(d, overflow_checks) ==
    Only({ IF l.kind # "ok" THEN [kind |-> l.kind, out |-> NoVal]
           ELSE fmt_grid(d, l.lens, overflow_checks)
         : l \in {lens(d)} })

\* DataFrame::read_str from the header slice on, r being width, height, raw.
read_str_table(r, overflow_checks) ==
    IF r.width > Len(r.raw) \/ (r.height = 0 /\ overflow_checks)
    THEN [kind |-> "panic", df |-> DataFrameDefault]
    ELSE [kind |-> "ok",
          df   |-> [headers |-> SubSeq(r.raw, 1, r.width),
                    data    |-> [i \in 1..(Len(r.raw) - r.width) |-> from_str(r.raw[r.width + i])],
                    width   |-> r.width,
                    height  |-> IF r.height = 0 THEN UsizeMax ELSE r.height - 1]]

\* DataFrame::read_str up to its return value: [kind, df]. Without overflow
\* checks the height of a text with no line wraps instead of panicking.
read_str(text, overflow_checks) ==
    Only({read_str_table(r, overflow_checks) : r \in {ReadRaw(text)}})

----------------------------------------------------------------------------
(* The read_str the derive macro generates for a record type               *)

\* The type names the generated match arms name, and what each arm parses.
FloatTypes == {"f64"}
UsizeTypes == {"f32", "usize", "isize", "u128", "i128", "u64", "i64",
               "u32", "i32", "u16", "i16", "u8", "i8"}
StringTypes == {"String"}

\* The match on ftyp with the f32 arm parsing a float: a plausible slip.
decode_typed_f32_as_float(ftyp, d) ==
    IF ftyp \in FloatTypes \cup {"f32"}
    THEN LET f == parse_f64(d)
         IN  IF f.ok THEN [kind |-> "ok", val |-> Float64Val(f)]
             ELSE [kind |-> "panic", val |-> NoVal]
    ELSE IF ftyp \in UsizeTypes
    THEN LET u == parse_usize(d)
         IN  IF u.ok THEN [kind |-> "ok", val |-> UsizeVal(u)]
             ELSE [kind |-> "panic", val |-> NoVal]
    ELSE IF ftyp \in StringTypes THEN [kind |-> "ok", val |-> StringVal(d)]
    ELSE [kind |-> "err", val |-> [error |-> "InvalidDataType", of |-> ftyp]]

\* The match on ftyp for one cell d: the parse of a numeric arm is unwrapped,
\* so a cell it rejects panics; a type name without an arm returns the error.
decode_typed(ftyp, d) ==
    IF ftyp \in FloatTypes
    THEN LET f == parse_f64(d)
         IN  IF f.ok THEN [kind |-> "ok", val |-> Float64Val(f)]
             ELSE [kind |-> "panic", val |-> NoVal]
    ELSE IF ftyp \in UsizeTypes
    THEN LET u == parse_usize(d)
         IN  IF u.ok THEN [kind |-> "ok", val |-> UsizeVal(u)]
             ELSE [kind |-> "panic", val |-> NoVal]
    ELSE IF ftyp \in StringTypes THEN [kind |-> "ok", val |-> StringVal(d)]
    ELSE [kind |-> "err", val |-> [error |-> "InvalidDataType", of |-> ftyp]]

\* ParsedTokenStream::fnames and ::ftypes of the record type
fnames(sch) == [j \in 1..Len(sch) |-> sch[j].name]
ftypes(sch) == [j \in 1..Len(sch) |-> sch[j].type]

\* new_pos: the header position (from 0) of every field name the headers hold
RECURSIVE new_pos(_, _)
new_pos(names, headers) ==
    IF names = <<>> THEN <<>>
    ELSE (IF position(headers, names[1]) >= 0 THEN <<position(headers, names[1])>> ELSE <<>>)
         \o new_pos(Tail2(names), headers)

\* The while loop that fills filtered_data, from one iteration's start on.
RECURSIVE Project(_, _, _, _, _, _)
Project(slice, np, raw_width, cursor, adv, out) ==
    IF ~(cursor < Len(slice)) THEN [kind |-> "ok", out |-> out]
    ELSE IF np = <<>> THEN [kind |-> "panic", out |-> out]
    ELSE LET pos == np[(cursor % Len(np)) + 1]
         IN  IF pos + adv >= Len(slice) THEN [kind |-> "panic", out |-> out]
             ELSE LET out2    == Append(out, slice[pos + adv + 1])
                      cursor2 == cursor + 1
                      adv2    == IF cursor2 % Len(np) = 0 THEN adv + raw_width ELSE adv
                  IN  IF pos + adv2 > Len(slice) THEN [kind |-> "ok", out |-> out2]
                      ELSE Project(slice, np, raw_width, cursor2, adv2, out2)

\* The map over filtered_data collected into a Result: cell i is decoded as
\* ftypes[i % ftypes.len()], and the first cell that panics or errs ends it.
DecodeAll(types, cells) ==
    IF cells # <<>> /\ types = <<>> THEN [kind |-> "panic", val |-> NoVal]
    ELSE Only({ IF \E i \in 1..Len(cells) : one[i].kind # "ok"
                THEN one[CHOOSE i \in 1..Len(cells) :
                            /\ one[i].kind # "ok"
                            /\ \A j \in 1..(i - 1) : one[j].kind = "ok"]
                ELSE [kind |-> "ok", val |-> [i \in 1..Len(cells) |-> one[i].val]]
              : one \in {[i \in 1..Len(cells) |->
                            decode_typed(types[((i - 1) % Len(types)) + 1], cells[i])]} })

\* DataFrame::set_headers, set_data and set_size, as the generated code calls them
set_headers(d, headers) == [d EXCEPT !.headers = headers]
set_data(d, data) == [d EXCEPT !.data = data]
set_size(d, width, height) == [d EXCEPT !.width = width, !.height = height]

\* The generated read_str from the decode of filtered_data on: the typed
\* cells go into a default table with the schema's names and size.
gen_materialize(sch, height, out) ==
    Only({ IF dec.kind # "ok"
           THEN [kind |-> dec.kind, val |-> dec.val, df |-> DataFrameDefault, filtered |-> out]
           ELSE [kind |-> "ok", val |-> NoVal, filtered |-> out,
                 df |-> set_size(set_data(set_headers(DataFrameDefault, fnames(sch)), dec.val),
                                 Len(fnames(sch)), height)]
         : dec \in {DecodeAll(ftypes(sch), out)} })

\* The generated read_str from the header slice on, r being width, height, raw.
gen_project(sch, r, overflow_checks) ==
    IF r.width > Len(r.raw) \/ (r.height = 0 /\ overflow_checks)
    THEN [kind |-> "panic", val |-> NoVal, df |-> DataFrameDefault, filtered |-> <<>>]
    ELSE Only({ IF p.kind = "panic"
                THEN [kind |-> "panic", val |-> NoVal, df |-> DataFrameDefault,
                      filtered |-> <<>>]
                ELSE gen_materialize(sch, IF r.height = 0 THEN UsizeMax ELSE r.height - 1, p.out)
              : p \in {Project(SubSeq(r.raw, r.width + 1, Len(r.raw)),
                               new_pos(fnames(sch), SubSeq(r.raw, 1, r.width)),
                               r.width, 0, 0, <<>>)} })

\* The generated read_str: [kind, val, df, filtered].
gen_read_str(sch, text, overflow_checks) ==
    Only({gen_project(sch, r, overflow_checks) : r \in {ReadRaw(text)}})

----------------------------------------------------------------------------
(* The derive macro's Schema Extractor: Cursor::parse over a token buffer  *)

\* proc_macro::TokenTree. A Group keeps its delimiter in text and its own
\* token stream; "<" and ">" are Punct tokens, never the delimiters of a Group.
Ident(t) == [kind |-> "Ident", text |-> t, stream |-> <<>>]
Punct(c) == [kind |-> "Punct", text |-> c, stream |-> <<>>]
Literal(t) == [kind |-> "Literal", text |-> t, stream |-> <<>>]
Group(delim, stream) == [kind |-> "Group", text |-> delim, stream |-> stream]

None == [some |-> FALSE, val |-> NoVal]
Some(x) == [some |-> TRUE, val |-> x]

\* the concatenation of strings: collect::<String>()
RECURSIVE Cat(_)
Cat(ss) == IF ss = <<>> THEN "" ELSE ss[1] \o Cat(Tail2(ss))

OpenOf(delim) ==
    CASE delim = "Parenthesis" -> "(" [] delim = "Brace" -> "{" [] delim = "Bracket" -> "["
      [] OTHER -> ""
CloseOf(delim) ==
    CASE delim = "Parenthesis" -> ")" [] delim = "Brace" -> "}" [] delim = "Bracket" -> "]"
      [] OTHER -> ""

\* TokenTree::to_string: the token's text, a Group's being its delimiters
\* around its tokens' texts (the blanks the compiler puts between them left out)
RECURSIVE TokenText(_)
TokenText(tree) ==
    IF tree.kind = "Group"
    THEN OpenOf(tree.text)
         \o Cat([i \in 1..Len(tree.stream) |-> TokenText(tree.stream[i])])
         \o CloseOf(tree.text)
    ELSE tree.text

\* The Group arm: the group's tokens split at its "," tokens, the empty
\* pieces dropped.
group_fields(group) ==
    SelectSeq(split(group.stream, Punct(",")), LAMBDA trees : Len(trees) > 0)

\* The for_each of the "pub" arm over the tokens in the parentheses.
RECURSIVE scope_of(_, _)
scope_of(stream, visibility) ==
    IF stream = <<>> THEN visibility
    ELSE scope_of(Tail2(stream),
                  IF stream[1] = Ident("crate") THEN "PubCrate"
                  ELSE IF stream[1] = Ident("super") THEN "PubSuper"
                  ELSE visibility)

\* The "pub" arm, at offset c.offset: [kind, cur]
parse_pub(buffer, c) ==
    IF c.offset + 1 >= Len(buffer) THEN [kind |-> "panic", cur |-> c]
    ELSE Only({ [kind |-> "ok",
                 cur  |-> [c EXCEPT !.offset = c.offset + 1,
                                    !.visibility =
                                        IF next.kind = "Group"
                                        THEN (IF next.text = "Parenthesis"
                                              THEN scope_of(next.stream, c.visibility)
                                              ELSE c.visibility)
                                        ELSE "Pub"]]
              : next \in {buffer[c.offset + 2]} })

\* The "struct" | "enum" arm: the offset moves to the next token, which is
\* the name if it is an identifier.
parse_keyword(buffer, c) ==
    IF c.offset + 1 >= Len(buffer) THEN [kind |-> "panic", cur |-> [c EXCEPT !.offset = c.offset + 1]]
    ELSE IF buffer[c.offset + 2].kind = "Ident"
    THEN [kind |-> "ok", cur |-> [c EXCEPT !.offset = c.offset + 2,
                                           !.name = Some(buffer[c.offset + 2].text)]]
    ELSE [kind |-> "ok", cur |-> [c EXCEPT !.offset = c.offset + 1]]

\* The '<' arm: closing is the place of the first '>' from the offset on,
\* counted from the offset; without one the iteration ends where it began.
parse_generics(buffer, c) ==
    Only({ IF closing < 0 THEN [kind |-> "ok", cur |-> c]
           ELSE [kind |-> "ok",
                 cur  |-> [c EXCEPT !.offset = c.offset + 1,
                                    !.generics = Some(SubSeq(buffer, c.offset + 2,
                                                             closing + c.offset))]]
         : closing \in {position(SubSeq(buffer, c.offset + 1, Len(buffer)), Punct(">"))} })

\* One iteration of the while loop of Cursor::parse: [kind, cur]
parse_step(buffer, c) ==
    Only({ CASE tree.kind = "Group" ->
                  [kind |-> "ok", cur |-> [c EXCEPT !.offset = c.offset + 1,
                                                    !.data = Some(group_fields(tree))]]
             [] tree = Ident("pub") -> parse_pub(buffer, c)
             [] tree = Ident("struct") \/ tree = Ident("enum") -> parse_keyword(buffer, c)
             [] tree = Punct("<") -> parse_generics(buffer, c)
             [] OTHER -> [kind |-> "ok", cur |-> [c EXCEPT !.offset = c.offset + 1]]
         : tree \in {buffer[c.offset + 1]} })

\* What Cursor::parse returns after the loop: [kind, val]
parse_result(c) ==
    IF ~c.name.some THEN [kind |-> "err", val |-> [error |-> "IdentNotFound"]]
    ELSE [kind |-> "ok",
          val  |-> [visibility |-> c.visibility, name |-> c.name.val,
                    generics |-> c.generics, data |-> c.data]]

\* ParsedTokenStream::fnames and ::ftypes on the parsed data, unwrapped as
\* into_token_stream does: [kind, names] and [kind, types]
data_fnames(data) ==
    IF ~data.some THEN [kind |-> "panic", names |-> <<>>]
    ELSE [kind |-> "ok", names |-> [j \in 1..Len(data.val) |-> TokenText(data.val[j][1])]]

data_ftypes(data) ==
    IF ~data.some \/ \E j \in 1..Len(data.val) : Len(data.val[j]) < 2
    THEN [kind |-> "panic", types |-> <<>>]
    ELSE [kind |-> "ok",
          types |-> [j \in 1..Len(data.val) |->
                        Cat([i \in 1..(Len(data.val[j]) - 2) |-> TokenText(data.val[j][i + 2])])]]

----------------------------------------------------------------------------
(* The table specification: DataFrame::read_str on a text, then col, row   *)
(* and loc calls on the table it returned.                                 *)

\* The most cells a generated text holds.
MaxTextCells == 6
\* The most loc calls made on one table.
MaxLocs == 1

TextCells == {<<"a">>, <<"7">>}
Separators == {",", "\n"}

\* The texts of exactly n cells, any two neighbours joined by "," or "\n".
RECURSIVE TextsOf(_, _)
TextsOf(cells, n) ==
    IF n = 1 THEN cells
    ELSE {t \o <<sep>> \o c : t \in TextsOf(cells, n - 1), sep \in Separators, c \in cells}

\* Texts without a cell, with empty cells, with a final line ending, with
\* "\r\n", with a header longer than the cells below it.
OddTexts ==
    { <<>>, <<"\n">>, <<"\n", "\n">>, <<",">>, <<"a", ",">>, <<"a", "\n">>,
      <<"a", ",", "7", "\n", "7", ",", "a", "\n">>,
      <<"a", ",", "7", "\r", "\n", "7", ",", "a", "\r", "\n">>,
      <<"a", "\n", "\n", "7">>, <<"a", ",", "a", "\n", ",">>,
      <<"a", "a", "a", "a", "a", "a", "a", "\n", "7">> }

Texts == OddTexts \cup UNION {TextsOf(TextCells, n) : n \in 1..MaxTextCells}

\* The names asked for: one that texts use as a header, one that none uses.
QueryNames == {<<"a">>, <<"z">>}

\* The row indices asked for: every row of the table and two past its end.
RowProbes(d) == 0..(IF d.height = UsizeMax THEN 1 ELSE d.height + 1)

NoSchema == <<>>

Init ==
    /\ input \in Texts
    /\ schema = NoSchema
    /\ phase = "text"
    /\ df = DataFrameDefault
    /\ filtered = <<>>
    /\ ret = Ret("none", NoVal, "none", NoVal)
    /\ calls = <<>>
    /\ nloc = 0
    /\ decl = NoDecl
    /\ cur = NoCursor

ReadStr ==
    /\ phase = "text"
    /\ \E overflow_checks \in BOOLEAN :
         \E r \in {read_str(input, overflow_checks)} :
             /\ phase' = IF r.kind = "ok" THEN "loaded" ELSE "panicked"
             /\ df' = r.df
             /\ ret' = Ret("read_str", NoVal, r.kind, NoVal)
    /\ UNCHANGED <<decl, cur, input, schema, filtered, calls, nloc>>

Col ==
    /\ phase = "loaded"
    /\ \E name \in QueryNames :
         \E r \in {col(df, name)} :
             /\ ret' = r
             /\ phase' = IF r.kind = "panic" THEN "panicked" ELSE phase
    /\ UNCHANGED <<decl, cur, input, schema, df, filtered, calls, nloc>>

Row ==
    /\ phase = "loaded"
    /\ \E idx \in RowProbes(df) :
         \E r \in {row(df, idx)} :
             /\ ret' = r
             /\ phase' = IF r.kind = "panic" THEN "panicked" ELSE phase
    /\ UNCHANGED <<decl, cur, input, schema, df, filtered, calls, nloc>>

Loc ==
    /\ phase = "loaded"
    /\ nloc < MaxLocs
    /\ \E name \in QueryNames, f \in Transforms :
         \E r \in {loc(df, name, f)} :
             /\ ret' = r.ret
             /\ df' = [df EXCEPT !.data = r.data]
             /\ calls' = r.calls
             /\ phase' = IF r.ret.kind = "panic" THEN "panicked" ELSE phase
    /\ nloc' = nloc + 1
    /\ UNCHANGED <<decl, cur, input, schema, filtered>>

\* {:?} of the table
Debug ==
    /\ phase = "loaded"
    /\ \E overflow_checks \in BOOLEAN :
         \E r \in {fmt(df, overflow_checks)} :
             /\ ret' = Ret("fmt", NoVal, r.kind, r.out)
             /\ phase' = IF r.kind = "ok" THEN phase ELSE "panicked"
    /\ UNCHANGED <<decl, cur, input, schema, df, filtered, calls, nloc>>

Next == ReadStr \/ Col \/ Row \/ Loc

Spec == Init /\ [][Next]_vars

\* The rendering specification: a table is read, changed by loc calls or
\* not, and rendered.
NextDebug == ReadStr \/ Loc \/ Debug

SpecDebug == Init /\ [][NextDebug]_vars

----------------------------------------------------------------------------
(* The value specification: Val::from_str on one cell.                     *)

\* The longest cell enumerated character by character.
MaxCellLen == 3

CellAlphabet == {"0", "1", "-", "+", ".", "e", "a", "n"}

RECURSIVE CellsOf(_)
CellsOf(n) ==
    IF n = 0 THEN {<<>>}
    ELSE {c \o <<ch>> : c \in CellsOf(n - 1), ch \in CellAlphabet}

\* The cells of the crate's tests, and the cells at the edges of the i64 range.
NamedCells ==
    { <<"6","6">>, <<"6","6",".","6","6">>, <<"M","e","s","s","i">>,
      <<"-","0",".","6","9">>, <<"N","a","N">>, <<"i","n","f">>, <<" ","7">>,
      <<"9","2","2","3","3","7","2","0","3","6","8","5","4","7","7","5","8","0","7">>,
      <<"9","2","2","3","3","7","2","0","3","6","8","5","4","7","7","5","8","0","8">>,
      <<"-","9","2","2","3","3","7","2","0","3","6","8","5","4","7","7","5","8","0","8">>,
      <<"-","9","2","2","3","3","7","2","0","3","6","8","5","4","7","7","5","8","0","9">>,
      <<"0","0","0","9","2","2","3","3","7","2","0","3","6","8","5","4","7","7","5","8","0","7">> }

Cells == NamedCells \cup UNION {CellsOf(n) : n \in 0..MaxCellLen}

InitVal ==
    /\ input \in Cells
    /\ schema = NoSchema
    /\ phase = "text"
    /\ df = DataFrameDefault
    /\ filtered = <<>>
    /\ ret = Ret("none", NoVal, "none", NoVal)
    /\ calls = <<>>
    /\ nloc = 0
    /\ decl = NoDecl
    /\ cur = NoCursor

FromStr ==
    /\ phase = "text"
    /\ phase' = "parsed"
    /\ ret' = Ret("from_str", NoVal, "ok", from_str(input))
    /\ UNCHANGED <<decl, cur, input, schema, df, filtered, calls, nloc>>

NextVal == FromStr

SpecVal == InitVal /\ [][NextVal]_vars

----------------------------------------------------------------------------
(* The generated-decoder specification: a record type's generated read_str *)
(* on a text.                                                              *)

\* The most cells a text for the generated read_str holds.
MaxGenCells == 4

GenHeaderCells == {<<"a">>, <<"b">>, <<"c">>}
GenDataCells == {<<"7">>, <<"x">>}

\* n header cells joined by ","
RECURSIVE HeaderLinesOf(_)
HeaderLinesOf(n) ==
    IF n = 1 THEN GenHeaderCells
    ELSE {h \o <<",">> \o c : h \in HeaderLinesOf(n - 1), c \in GenHeaderCells}

\* what follows the header line: n data cells, the first on a new line, each
\* further one after a "," or on a new line
RECURSIVE BodiesOf(_)
BodiesOf(n) ==
    IF n = 0 THEN {<<>>}
    ELSE {b \o <<sep>> \o c : b \in BodiesOf(n - 1),
                              sep \in (IF n = 1 THEN {"\n"} ELSE Separators),
                              c \in GenDataCells}

GenTexts ==
    {<<>>} \cup UNION { UNION { {h \o b : h \in HeaderLinesOf(k), b \in BodiesOf(n)} :
                                n \in 0..(MaxGenCells - k) } : k \in 1..MaxGenCells }

FieldNames == {<<"a">>, <<"b">>}
TypeNames == FloatTypes \cup UsizeTypes \cup StringTypes \cup {"bool"}
PairTypes == {"String", "usize"}

\* Record types of one field of any type name, and of two fields (a struct's
\* field names differ) of the pair types.
Schemas ==
    {<<[name |-> n, type |-> t]>> : n \in FieldNames, t \in TypeNames}
    \cup {sch \in {<<[name |-> n1, type |-> t1], [name |-> n2, type |-> t2]>> :
                       n1 \in FieldNames, n2 \in FieldNames, t1 \in PairTypes, t2 \in PairTypes} :
            sch[1].name # sch[2].name}

InitGen ==
    /\ input \in GenTexts
    /\ schema \in Schemas
    /\ phase = "text"
    /\ df = DataFrameDefault
    /\ filtered = <<>>
    /\ ret = Ret("none", NoVal, "none", NoVal)
    /\ calls = <<>>
    /\ nloc = 0
    /\ decl = NoDecl
    /\ cur = NoCursor

GenReadStr ==
    /\ phase = "text"
    /\ \E overflow_checks \in BOOLEAN :
         \E r \in {gen_read_str(schema, input, overflow_checks)} :
             /\ phase' = CASE r.kind = "ok" -> "loaded"
                           [] r.kind = "err" -> "failed"
                           [] OTHER -> "panicked"
             /\ df' = r.df
             /\ filtered' = r.filtered
             /\ ret' = Ret("gen_read_str", NoVal, r.kind, r.val)
    /\ UNCHANGED <<decl, cur, input, schema, calls, nloc>>

\* The table the generated read_str returned is a DataFrame like any other:
\* its caller goes on to call loc on it.
NextGen == GenReadStr \/ Loc

SpecGen == InitGen /\ [][NextGen]_vars

----------------------------------------------------------------------------
(* The comparison specification: == and partial_cmp on a pair of Vals.     *)

\* The largest magnitude of the small integer payloads.
MaxMagnitude == 2

\* the decimal digits of n, most significant first (zero has none)
RECURSIVE NatDigits(_)
NatDigits(n) == IF n = 0 THEN <<>> ELSE Append(NatDigits(n \div 10), n % 10)

SmallMags == {NatDigits(n) : n \in 0..MaxMagnitude}
WideTags == {"Isize", "Int128", "Int64", "Usize", "UInt128", "Uint64"}

CmpStrings == {<<>>, <<"a">>, <<"b">>, <<"a", "b">>}
CmpFloatCells ==
    { <<"0">>, <<"-", "0">>, <<"1", ".", "5">>, <<"-", "1", ".", "5">>, <<"2">>,
      <<"n", "a", "n">>, <<"i", "n", "f">>, <<"-", "i", "n", "f">> }

\* Values of every variant: small payloads, and i64::MAX where the variant holds it.
CmpVals ==
    {StringVal(t) : t \in CmpStrings}
    \cup {v \in [tag : SignedTags, neg : BOOLEAN, mag : SmallMags \cup {I64MaxMag}] :
                /\ (v.mag = <<>> => ~v.neg)
                /\ (v.mag = I64MaxMag => v.tag \in WideTags)}
    \cup {v \in [tag : UnsignedTags, mag : SmallMags \cup {I64MaxMag}] :
                v.mag = I64MaxMag => v.tag \in WideTags}
    \cup {[Float64Val(parse_f64(c)) EXCEPT !.tag = t] : c \in CmpFloatCells, t \in FloatTags}

InitCmp ==
    /\ input \in CmpVals \X CmpVals
    /\ schema = NoSchema
    /\ phase = "text"
    /\ df = DataFrameDefault
    /\ filtered = <<>>
    /\ ret = Ret("none", NoVal, "none", NoVal)
    /\ calls = <<>>
    /\ nloc = 0
    /\ decl = NoDecl
    /\ cur = NoCursor

\* a == b and a.partial_cmp(&b) on the pair
Compare ==
    /\ phase = "text"
    /\ phase' = "compared"
    /\ ret' = Ret("cmp", NoVal, "ok",
                  [eq |-> eq(input[1], input[2]), ord |-> partial_cmp(input[1], input[2])])
    /\ UNCHANGED <<decl, cur, input, schema, df, filtered, calls, nloc>>

NextCmp == Compare

SpecCmp == InitCmp /\ [][NextCmp]_vars

----------------------------------------------------------------------------
(* The schema-extraction specification: the derive macro on a record type  *)
(* declaration: Cursor::new, the iterations of Cursor::parse, its return,  *)
(* and the field names and types into_token_stream takes from it.          *)

\* The most fields a declaration has.
MaxFields == 2
\* The most iterations of the scan that are followed.
MaxIterations == 20

\* visibility and keyword
Heads ==
    { <<Ident("struct")>>, <<Ident("enum")>>, <<Ident("pub"), Ident("struct")>>,
      <<Ident("pub"), Group("Parenthesis", <<Ident("crate")>>), Ident("struct")>>,
      <<Ident("pub"), Group("Parenthesis", <<Ident("super")>>), Ident("enum")>> }

\* what stands between the name and the field group: nothing, <T>,
\* <T: Into<u8>>, and <T> where T: Into<u8>
Generics ==
    { <<>>,
      <<Punct("<"), Ident("T"), Punct(">")>>,
      <<Punct("<"), Ident("T"), Punct(":"), Ident("Into"), Punct("<"), Ident("u8"),
        Punct(">"), Punct(">")>>,
      <<Punct("<"), Ident("T"), Punct(">"), Ident("where"), Ident("T"), Punct(":"),
        Ident("Into"), Punct("<"), Ident("u8"), Punct(">")>> }

\* declared field types: String, usize, Vec<u8>, HashMap<String, u32>, (u8, u8)
FieldTypes ==
    { <<Ident("String")>>, <<Ident("usize")>>,
      <<Ident("Vec"), Punct("<"), Ident("u8"), Punct(">")>>,
      <<Ident("HashMap"), Punct("<"), Ident("String"), Punct(","), Ident("u32"), Punct(">")>>,
      <<Group("Parenthesis", <<Ident("u8"), Punct(","), Ident("u8")>>)>> }

\* the name of the j-th declared field
FieldName(j) == <<"a", "b", "c", "d">>[j]

\* the lists of n declared fields [name, type]
RECURSIVE FieldListsOf(_)
FieldListsOf(n) ==
    IF n = 0 THEN {<<>>}
    ELSE {Append(fs, [name |-> FieldName(n), type |-> t]) : fs \in FieldListsOf(n - 1),
                                                              t \in FieldTypes}

Decls ==
    [head : Heads, generics : Generics,
     fields : UNION {FieldListsOf(n) : n \in 0..MaxFields}, trailing : BOOLEAN]

\* the tokens of the field group of a declaration: name ":" type, a ","
\* between two fields and, where written, after the last
RECURSIVE FieldTokens(_, _)
FieldTokens(fields, trailing) ==
    IF fields = <<>> THEN <<>>
    ELSE <<Ident(fields[1].name), Punct(":")>> \o fields[1].type
         \o (IF Len(fields) > 1 \/ trailing THEN <<Punct(",")>> ELSE <<>>)
         \o FieldTokens(Tail2(fields), trailing)

\* the token stream of a declaration, the type being named S
Tokens(d) ==
    d.head \o <<Ident("S")>> \o d.generics
    \o <<Group("Brace", FieldTokens(d.fields, d.trailing))>>

\* Token sequences that are no declaration: a '<' with no '>' after it, a
\* keyword with no identifier after it, a last token "pub", no keyword.
OddTokens ==
    { <<>>, <<Ident("S")>>, <<Ident("pub")>>, <<Ident("struct")>>,
      <<Punct("<")>>, <<Ident("struct"), Ident("S"), Punct("<"), Ident("T")>>,
      <<Ident("struct"), Punct("<"), Ident("T"), Punct(">")>>,
      <<Ident("struct"), Literal("1"), Ident("S")>>,
      <<Ident("enum"), Group("Brace", <<>>)>>,
      <<Ident("struct"), Ident("S"), Punct(";")>>,
      <<Ident("struct"), Ident("S"), Group("Parenthesis", <<Ident("u8")>>), Punct(";")>> }

\* Cursor::new and the locals of parse before the loop
NewCursor ==
    [offset |-> 0, iter |-> 0, visibility |-> "Private",
     name |-> None, generics |-> None, data |-> None]

InitParse ==
    /\ \/ \E d \in Decls : decl = d /\ input = Tokens(d)
       \/ decl = NoDecl /\ input \in OddTokens
    /\ cur = NewCursor
    /\ schema = NoSchema
    /\ phase = "scanning"
    /\ df = DataFrameDefault
    /\ filtered = <<>>
    /\ ret = Ret("none", NoVal, "none", NoVal)
    /\ calls = <<>>
    /\ nloc = 0

\* one iteration of the while loop; iter counts the iterations
ParseStep ==
    /\ phase = "scanning"
    /\ cur.offset < Len(input)
    /\ cur.iter < MaxIterations
    /\ \E r \in {parse_step(input, cur)} :
         /\ cur' = [r.cur EXCEPT !.iter = cur.iter + 1]
         /\ phase' = IF r.kind = "ok" THEN "scanning" ELSE "panicked"
         /\ ret' = IF r.kind = "ok" THEN ret ELSE Ret("parse", NoVal, "panic", NoVal)
    /\ UNCHANGED <<decl, input, schema, df, filtered, calls, nloc>>

\* the loop's exit and the return of Cursor::parse
ParseReturn ==
    /\ phase = "scanning"
    /\ ~(cur.offset < Len(input))
    /\ \E r \in {parse_result(cur)} :
         /\ ret' = Ret("parse", NoVal, r.kind, r.val)
         /\ phase' = IF r.kind = "ok" THEN "parsed" ELSE "failed"
    /\ UNCHANGED <<decl, cur, input, schema, df, filtered, calls, nloc>>

\* into_token_stream taking the field names and types from the parsed data
Extract ==
    /\ phase = "parsed"
    /\ \E ns \in {data_fnames(ret.val.data)}, ts \in {data_ftypes(ret.val.data)} :
         IF ns.kind = "ok" /\ ts.kind = "ok"
         THEN /\ schema' = [j \in 1..Len(ns.names) |-> [name |-> ns.names[j], type |-> ts.types[j]]]
              /\ phase' = "extracted"
              /\ ret' = Ret("extract", NoVal, "ok", ret.val)
         ELSE /\ schema' = schema
              /\ phase' = "panicked"
              /\ ret' = Ret("extract", NoVal, "panic", ret.val)
    /\ UNCHANGED <<decl, cur, input, df, filtered, calls, nloc>>

NextParse == ParseStep \/ ParseReturn \/ Extract

SpecParse == InitParse /\ [][NextParse]_vars

----------------------------------------------------------------------------
(* Claims about the table specification                                    *)

FirstLineCells(text) == split(lines(text)[1], ",")

\* every line has the same number of comma-separated cells
WellFormed(text) ==
    LET ls == lines(text)
    IN  \A i, j \in 1..Len(ls) : Len(split(ls[i], ",")) = Len(split(ls[j], ","))

\* C1: on a table read_str produced, row(idx) is absent when idx >= height;
\* when idx < height it returns, without aborting, a mapping with exactly width
\* entries, one per header, the header of column c bound to data[idx*width + c].
C1_RowContract ==
    (ret.op = "row" /\ nloc = 0) =>
        LET idx == ret.arg[1]
        IN  IF idx >= df.height THEN ret.kind = "none"
            ELSE /\ ret.kind = "some"
                 /\ Cardinality(DOMAIN ret.val) = df.width
                 /\ \A c \in 0..(df.width - 1) :
                       /\ df.headers[c + 1] \in DOMAIN ret.val
                       /\ ret.val[df.headers[c + 1]] = df.data[idx * df.width + c + 1]

\* C2: on a table read from well-formed text, col(name) returns a sequence
\* exactly when name is a cell of the first line, and then the sequence has
\* height entries, entry r being data[r*width + c] for the name's column c.
C2_ColOfWellFormed ==
    (ret.op = "col" /\ WellFormed(input)) =>
        LET name   == ret.arg
            known  == lines(input) # <<>> /\ \E k \in 1..Len(FirstLineCells(input)) :
                                                 FirstLineCells(input)[k] = name
            c      == IndexOf(FirstLineCells(input), name) - 1
        IN  /\ ret.kind \in {"some", "none"}
            /\ (ret.kind = "some") <=> known
            /\ known =>
                 /\ Len(ret.val) = df.height
                 /\ \A r \in 0..(df.height - 1) : ret.val[r + 1] = df.data[r * df.width + c + 1]

C2_Witness ==
    /\ ret.op = "col" /\ ret.kind = "some" /\ WellFormed(input)
    /\ df.width >= 2 /\ Len(ret.val) >= 2
    /\ position(df.headers, ret.arg) = 1
    /\ ret.val[1] # ret.val[2]

\* the data indices of column c, as a set
ColumnSet(d, c) == {i \in 0..(Len(d.data) - 1) : i % d.width = c}

\* C3: loc(name, transform) with name in headers at column c hands the
\* transform each cell data[i] with i mod width = c exactly once, in ascending
\* order, and no other cell; the other cells, the headers, width, height and
\* the number of cells stay as they were, and col(name) then returns the
\* transformed values.
C3_LocTransformsColumn ==
    [][ (ret'.op = "loc" /\ nloc' = nloc + 1 /\ position(df.headers, ret'.arg[1]) >= 0) =>
          LET name == ret'.arg[1]
              f    == ret'.arg[2]
              c    == position(df.headers, name)
          IN  /\ ret'.kind = "ok"
              /\ {calls'[k] : k \in 1..Len(calls')} = ColumnSet(df, c)
              /\ \A k \in 1..(Len(calls') - 1) : calls'[k] < calls'[k + 1]
              /\ Len(df'.data) = Len(df.data)
              /\ \A i \in 0..(Len(df.data) - 1) :
                    df'.data[i + 1] = IF i % df.width = c THEN Apply(f, df.data[i + 1])
                                      ELSE df.data[i + 1]
              /\ df'.headers = df.headers /\ df'.width = df.width /\ df'.height = df.height
              /\ col(df', name).kind = "some"
              /\ col(df', name).val =
                    [k \in 1..Len(col(df, name).val) |-> Apply(f, col(df, name).val[k])]
      ]_vars

C3_Witness ==
    /\ ret.op = "loc" /\ ret.kind = "ok"
    /\ df.width >= 2 /\ Len(calls) >= 2
    /\ \E k \in 1..Len(calls) : df.data[calls[k] + 1].tag = "Usize"
    /\ \E i \in 1..Len(df.data) : df.data[i].tag # "Usize"

\* C4: loc(name, transform) with a name that is not in headers returns the
\* error HeaderNotFound(name), never calls the transform, and leaves headers,
\* data, width and height as they were; col(name) for the same name returns
\* an absent result, not an error.
C4_LocUnknownHeader ==
    [][ (ret'.op = "loc" /\ nloc' = nloc + 1 /\ position(df.headers, ret'.arg[1]) < 0) =>
          /\ ret'.kind = "err"
          /\ ret'.val = [error |-> "HeaderNotFound", of |-> ret'.arg[1]]
          /\ calls' = <<>>
          /\ df' = df
          /\ col(df', ret'.arg[1]).kind = "none"
      ]_vars

C4_Witness ==
    /\ ret.op = "loc" /\ ret.kind = "err"
    /\ df.width >= 2 /\ df.height >= 2 /\ Len(df.data) = df.width * df.height

\* C5: for a text of at least one line, read_str returns a table whose width
\* is the first line's cell count, whose headers are the first line's cells,
\* whose height is the number of lines minus one and whose data is the cells
\* of the other lines, in line order.
C5_ReadStrShape ==
    (ret.op = "read_str" /\ lines(input) # <<>>) =>
        LET ls   == lines(input)
            rest == Flatten([i \in 1..(Len(ls) - 1) |-> split(ls[i + 1], ",")])
        IN  /\ ret.kind = "ok"
            /\ df.width = Len(FirstLineCells(input))
            /\ df.headers = FirstLineCells(input)
            /\ df.height = Len(ls) - 1
            /\ df.data = [i \in 1..Len(rest) |-> from_str(rest[i])]

----------------------------------------------------------------------------
(* Claims about the value specification                                    *)

\* an optional sign and one to eighteen digits: an integer inside the i64 range
IntegerLooking(s) ==
    LET ds == IF s # <<>> /\ s[1] \in {"+", "-"} THEN Tail2(s) ELSE s
    IN  ds # <<>> /\ IsDigits(ds) /\ Len(ds) <= 18

\* digits with a decimal point among them
DecimalLooking(s) ==
    LET ds == IF s # <<>> /\ s[1] \in {"+", "-"} THEN Tail2(s) ELSE s
        k  == IndexOf(ds, ".")
    IN  /\ k > 0 /\ Len(ds) > 1
        /\ IsDigits(SubSeq(ds, 1, k - 1)) /\ IsDigits(SubSeq(ds, k + 1, Len(ds)))

\* C6: Val::from_str never fails and is a priority chain: a cell that parses
\* as i64 becomes Int64, otherwise one that parses as f64 becomes Float64,
\* otherwise the cell becomes String with its text unchanged; an integer-looking
\* cell is never Float64 or String, a non-integer float-looking cell never Int64.
C6_InferenceChain ==
    (ret.op = "from_str") =>
        LET v == ret.val
            i == parse_i64(input)
            f == parse_f64(input)
        IN  /\ ret.kind = "ok"
            /\ v.tag \in {"Int64", "Float64", "String"}
            /\ i.ok => v = Int64Val(i)
            /\ (~i.ok /\ f.ok) => v = Float64Val(f)
            /\ (~i.ok /\ ~f.ok) => v = StringVal(input)
            /\ IntegerLooking(input) => v.tag = "Int64"
            /\ DecimalLooking(input) => v.tag = "Float64"
            /\ input = <<"6","6">> => v = [tag |-> "Int64", neg |-> FALSE, mag |-> <<6,6>>]
            /\ input = <<"6","6",".","6","6">> =>
                  v = [tag |-> "Float64", kind |-> "num", neg |-> FALSE,
                       mant |-> <<6,6,6,6>>, exp10 |-> 2]
            /\ input = <<"M","e","s","s","i">> => v = StringVal(input)

C6_Witness ==
    /\ ret.op = "from_str"
    /\ ret.val.tag = "Float64"
    /\ IsDigits(input) /\ Len(input) = 19

----------------------------------------------------------------------------
(* Claims about the generated-decoder specification                        *)

Recognized == FloatTypes \cup UsizeTypes \cup StringTypes

\* every schema field name is a cell of the header line
AllFieldsInHeader ==
    /\ lines(input) # <<>>
    /\ \A j \in 1..Len(schema) : position(FirstLineCells(input), schema[j].name) >= 0

\* the text of the CSV cell at data row r (from 0) of the column named as field j
SourceCell(r, j) ==
    split(lines(input)[r + 2], ",")[position(FirstLineCells(input), schema[j].name) + 1]

\* every field's type has an arm and accepts every cell of the field's CSV column
AllCellsDecodable ==
    \A j \in 1..Len(schema) :
        /\ schema[j].type \in Recognized
        /\ \A r \in 0..(Len(lines(input)) - 2) :
              decode_typed(schema[j].type, SourceCell(r, j)).kind = "ok"

\* C7: for a text of uniform-width rows whose header line holds every schema
\* field name, in any order and with any extra columns (each selected cell being
\* text its field's type accepts), the generated read_str returns a table whose
\* headers are the field names in schema order, whose height is the number of
\* data lines, and whose cell of field f at row r is decoded from the CSV cell
\* at row r of the column named f.
C7_ProjectionByName ==
    (ret.op = "gen_read_str" /\ WellFormed(input) /\ AllFieldsInHeader /\ AllCellsDecodable) =>
        LET k == Len(schema)
        IN  /\ ret.kind = "ok"
            /\ df.headers = fnames(schema)
            /\ df.height = Len(lines(input)) - 1
            /\ Len(df.data) = k * df.height
            /\ \A r \in 0..(df.height - 1), j \in 1..k :
                  df.data[r * k + j] = decode_typed(schema[j].type, SourceCell(r, j)).val

\* C8: every cell the generated read_str puts under a schema field f that the
\* CSV header holds is decoded by f's own declared type name: "String" gives
\* String with the cell text, "f64" gives Float64, and each of f32, usize,
\* isize, u8..u128, i8..i128 gives Usize; goals: usize with "888" gives Usize(888).
C8_DeclaredTypeDecides ==
    /\ (ret.op = "gen_read_str" /\ ret.kind = "ok") =>
          \A i \in 0..(Len(df.data) - 1) :
              LET f == schema[(i % df.width) + 1]
                  d == filtered[i + 1]
                  v == df.data[i + 1]
              IN  position(FirstLineCells(input), f.name) >= 0 =>
                    /\ f.type = "String" => v = [tag |-> "String", s |-> d]
                    /\ f.type = "f64" => v = Float64Val(parse_f64(d))
                    /\ f.type \in {"f32", "usize", "isize", "u8", "u16", "u32", "u64", "u128",
                                   "i8", "i16", "i32", "i64", "i128"}
                          => v = [tag |-> "Usize", mag |-> Mag(d)]
    /\ decode_typed("usize", <<"8","8","8">>) =
          [kind |-> "ok", val |-> [tag |-> "Usize", mag |-> <<8,8,8>>]]

C8_Witness ==
    /\ ret.op = "gen_read_str" /\ ret.kind = "ok"
    /\ Len(schema) = 2 /\ Len(df.data) = 2
    /\ AllFieldsInHeader /\ WellFormed(input)
    /\ df.data[1].tag = "String" /\ df.data[2].tag = "Usize"
    /\ position(FirstLineCells(input), schema[1].name) = 1

\* C9: if a schema field's declared type name has no arm (such as "bool"), the
\* generated read_str fails with InvalidDataType(that type name) for every
\* input text (here: every text of at least one line), and returns no table.
C9_UnknownTypeFails ==
    (ret.op = "gen_read_str" /\ lines(input) # <<>> /\ \E j \in 1..Len(schema) : schema[j].type \notin Recognized) =>
        /\ ret.kind = "err"
        /\ \E j \in 1..Len(schema) :
              /\ schema[j].type \notin Recognized
              /\ ret.val = [error |-> "InvalidDataType", of |-> schema[j].type]

\* C10: when a selected cell's text cannot be parsed as its field's declared
\* type, the generated read_str returns an error value and no table; it never
\* aborts the program.
C10_ParseFailureIsError ==
    (/\ ret.op = "gen_read_str"
     /\ \A j \in 1..Len(schema) : schema[j].type \in Recognized
     /\ \E i \in 1..Len(filtered) :
           decode_typed(schema[((i - 1) % Len(schema)) + 1].type, filtered[i]).kind # "ok")
    => ret.kind = "err"

\* the schema's fields (their indices, in schema order) that the header line holds
FoundFields ==
    SelectSeq([j \in 1..Len(schema) |-> j],
              LAMBDA j : position(FirstLineCells(input), schema[j].name) >= 0)

\* the found fields' CSV cells in schema order, one group per data row
ExpectedProjection ==
    Flatten([r \in 1..(Len(lines(input)) - 1) |->
                [k \in 1..Len(FoundFields) |-> SourceCell(r - 1, FoundFields[k])]])

\* every data cell of the text is text that every schema field's type accepts
NoDecodeFailure ==
    \A j \in 1..Len(schema), r \in 2..Len(lines(input)) :
        \A k \in 1..Len(split(lines(input)[r], ",")) :
            decode_typed(schema[j].type, split(lines(input)[r], ",")[k]).kind = "ok"

\* C11: for a text of uniform-width rows whose header line lacks some or all
\* of the schema's field names (and whose cells no field type rejects), the
\* generated read_str neither fails nor aborts: the projection loop ends inside
\* the data cells, and the projected sequence is exactly the found fields'
\* cells, in schema order, one group per data row.
C11_MissingFieldsDropped ==
    (/\ ret.op = "gen_read_str"
     /\ lines(input) # <<>> /\ WellFormed(input)
     /\ Len(FoundFields) < Len(schema)
     /\ NoDecodeFailure)
    => /\ ret.kind = "ok"
       /\ filtered = ExpectedProjection

\* C13: after a successful decode of a text of at least one line and
\* uniform-width lines by the generated read_str of any schema (one naming
\* fields the header lacks included), and after any loc calls on the table,
\* the table has as many headers as its width and width * height cells, so
\* that cell i lies in column i mod width of a row i div width below height.
C13_TableWellFormed ==
    (phase = "loaded" /\ lines(input) # <<>> /\ WellFormed(input)) =>
        /\ Len(df.headers) = df.width
        /\ Len(df.data) = df.width * df.height
        /\ \A i \in 0..(Len(df.data) - 1) : i \div df.width < df.height

----------------------------------------------------------------------------
(* Further claims about the table specification                            *)

\* C18: DataFrame::read_str returns a table or an error value for every text,
\* the empty text and a text of line breaks only included: the line count
\* minus one never goes below zero and the header slice stays inside raw.
C18_ReadStrAlwaysReturns ==
    (ret.op = "read_str") =>
        /\ ret.kind \in {"ok", "err"}
        /\ ReadRaw(input).height >= 1
        /\ ReadRaw(input).width <= Len(ReadRaw(input).raw)
        /\ ret.kind = "ok" => df.height = ReadRaw(input).height - 1

----------------------------------------------------------------------------
(* Claims about the comparison specification                               *)

\* the order of two payloads of one integer, size or string variant
PayloadOrder(a, b) ==
    IF a.tag = "String" THEN StrCmp(a.s, b.s)
    ELSE IF a.tag \in SignedTags THEN SignedCmp(a, b)
    ELSE MagCmp(a.mag, b.mag)

\* C12: for two values of one variant among String and the twelve integer and
\* size variants, a == b holds exactly when the payloads are equal and
\* partial_cmp is the payloads' order (a value equals itself); for two values
\* of different variants a == b is false and partial_cmp is incomparable;
\* neither operation panics.
C12_ValCompare ==
    (ret.op = "cmp") =>
        LET a == input[1]
            b == input[2]
        IN  /\ ret.kind = "ok"
            /\ (a.tag = b.tag /\ a.tag \notin FloatTags) =>
                  /\ ret.val.eq <=> (a = b)
                  /\ ret.val.ord = PayloadOrder(a, b)
            /\ a.tag # b.tag =>
                  /\ ret.val.eq = FALSE
                  /\ ret.val.ord = "None"

----------------------------------------------------------------------------
(* Claims about the rendering                                              *)

\* C17: in the Debug rendering of a table (here: one read from uniform-width
\* text with distinct header names), every column's display width is at least
\* its header's length and at least every cell's rendered length in that
\* column, so no padding goes below zero and the rendering completes, also
\* when a header is longer than all of its column's cells and when there is
\* no data row.
C17_RenderingCompletes ==
    (/\ ret.op = "fmt"
     /\ lines(input) # <<>> /\ WellFormed(input)
     /\ \A i, j \in 1..Len(df.headers) : df.headers[i] = df.headers[j] => i = j)
    => /\ ret.kind = "ok"
       /\ lens(df).kind = "ok"
       /\ \A c \in 1..Len(lens(df).lens) :
             /\ lens(df).lens[c] >= Len(df.headers[c])
             /\ \A i \in 0..(Len(df.data) - 1) :
                   i % df.width = c - 1 => lens(df).lens[c] >= Len(to_string(df.data[i + 1]))

----------------------------------------------------------------------------
(* Claims about the schema-extraction specification                        *)

\* C14: every iteration of the scan of Cursor::parse that goes on scanning
\* leaves the offset strictly greater than it found it, whatever the token
\* sequence (one with a '<' and no later '>' included).
C14_ScanProgress ==
    [][ (cur'.iter = cur.iter + 1 /\ phase' = "scanning") => cur'.offset > cur.offset ]_vars

\* the place (from 1) of the first '<' token of the buffer, 0 without one
FirstLt == IndexOf(input, Punct("<"))
\* the place (from 1) of the first '>' token after the first '<', 0 without one
FirstGtAfterLt ==
    IF IndexOf(SubSeq(input, FirstLt + 1, Len(input)), Punct(">")) = 0 THEN 0
    ELSE FirstLt + IndexOf(SubSeq(input, FirstLt + 1, Len(input)), Punct(">"))

\* C15: the generics Cursor::parse returns are the tokens strictly between
\* the first '<' token and the first '>' token after it, whatever '<' tokens
\* come later (inside the span or after it); without a '<' token they are none
\* and the parse is no error for that.
C15_GenericsSpan ==
    (ret.op = "parse" /\ ret.kind = "ok") =>
        IF FirstLt = 0 THEN ret.val.generics = None
        ELSE FirstGtAfterLt > 0 =>
                ret.val.generics = Some(SubSeq(input, FirstLt + 1, FirstGtAfterLt - 1))

\* C16: for a declaration with a field group, the extraction yields exactly
\* one (field_name, type_name) pair per declared field, in declaration order,
\* field_name being the field's first token and type_name the concatenated
\* text of its tokens from the third on, and it does not abort.
C16_FieldPairs ==
    (ret.op = "extract" /\ decl # NoDecl) =>
        /\ ret.kind = "ok"
        /\ Len(schema) = Len(decl.fields)
        /\ \A j \in 1..Len(decl.fields) :
              /\ schema[j].name = decl.fields[j].name
              /\ schema[j].type =
                    Cat([i \in 1..Len(decl.fields[j].type) |-> TokenText(decl.fields[j].type[i])])

====
